---- MODULE Spec2Model ----
(***************************************************************************)
(* State-machine model of the PE recompilation pipeline of RelocBonus      *)
(* (src/src/reloc/PeRecompiler.cpp).  One action per public operation of   *)
(* PeRecompiler; every action is the whole handler.  The follow-on blocks  *)
(* of multi-pass mode are produced by RewriteBlock.h, which is not part of *)
(* the source tree, so multiPass keeps its constructor value FALSE and     *)
(* doMultiPass is left out.                                                *)
(*                                                                         *)
(* 32-bit quantities are kept at their width: a 32-bit word is the tuple   *)
(* of its four little-endian bytes and arithmetic is byte-wise with carry, *)
(* i.e. modulo 2^32.  RVAs, sizes and offsets stay below 2^31 in every     *)
(* input of the model and are plain integers.                              *)
(***************************************************************************)
EXTENDS Integers, Sequences, FiniteSets, TLC

(***************************************************************************)
(* Bounds of the model                                                     *)
(***************************************************************************)
MaxRelocEntries == 2   \* entries of the input file's relocation block
MaxBlocks == 2         \* length of the rewrite-block queue
MaxRebaseCalls == 1    \* calls of performOnDiskRelocations that patch
MaxWriteCalls == 1     \* calls of writeOutputFile that reach stage 1
MaxSectionContents == 3  \* length of sectionContents after loadInputSections
MaxLoadCalls == 1      \* successful calls of loadInputFile
MaxCallsAfterWrite == 0  \* operations other than writeOutputFile after the first write

(***************************************************************************)
(* 32-bit little-endian words                                              *)
(***************************************************************************)
Byte == 0..255

W32(n) == <<n % 256, (n \div 256) % 256, (n \div 65536) % 256, (n \div 16777216) % 256>>

Add32(a, b) ==
  LET s1 == a[1] + b[1]
      s2 == a[2] + b[2] + (s1 \div 256)
      s3 == a[3] + b[3] + (s2 \div 256)
      s4 == a[4] + b[4] + (s3 \div 256)
  IN  <<s1 % 256, s2 % 256, s3 % 256, s4 % 256>>

Neg32(a) == Add32(<<255 - a[1], 255 - a[2], 255 - a[3], 255 - a[4]>>, <<1, 0, 0, 0>>)

Sub32(a, b) == Add32(a, Neg32(b))

\* a < b as unsigned 32-bit integers
Lt32(a, b) ==
  \E i \in 1..4 : a[i] < b[i] /\ \A j \in (i + 1)..4 : a[j] = b[j]

\* the value of a word below 2^31
ToInt(w) == w[1] + 256 * w[2] + 65536 * w[3] + 16777216 * w[4]

(***************************************************************************)
(* Program constants                                                       *)
(***************************************************************************)
TRICKY_BASE_ADDRESS == <<0, 0, 255, 255>>      \* 0xFFFF0000
ACTUALIZED_BASE_ADDRESS == <<0, 0, 1, 0>>      \* 0x00010000
IMAGE_DLLCHARACTERISTICS_DYNAMIC_BASE == 64    \* 0x0040
IMAGE_REL_BASED_HIGHLOW == 3
dataSize == 4
chunkSize == 1024 * dataSize
FileAlign == 512

\* a & b on naturals
RECURSIVE BitAnd(_, _)
BitAnd(a, b) ==
  IF a = 0 \/ b = 0 THEN 0
  ELSE (a % 2) * (b % 2) + 2 * BitAnd(a \div 2, b \div 2)

\* a & ~b on naturals
BitAndNot(a, b) == a - BitAnd(a, b)

(***************************************************************************)
(* Byte vectors (VectorUtils): offsets are 0-based as in the code          *)
(***************************************************************************)
getDataOk(data, off) == off >= 0 /\ off + 4 <= Len(data)

getData(data, off) == <<data[off + 1], data[off + 2], data[off + 3], data[off + 4]>>

putData(data, off, w) ==
  [data EXCEPT ![off + 1] = w[1], ![off + 2] = w[2], ![off + 3] = w[3], ![off + 4] = w[4]]

PadTo(data, n) ==
  LET len == IF Len(data) % n = 0 THEN Len(data) ELSE Len(data) + (n - (Len(data) % n))
  IN  [i \in 1..len |-> IF i <= Len(data) THEN data[i] ELSE 0]

(***************************************************************************)
(* Relocation directory (PeLib::RelocationsDirectory): a sequence of       *)
(* blocks [va, size, data], data a sequence of 16-bit entries              *)
(***************************************************************************)
Entry(type, off) == type * 4096 + off

\* the 16-bit entries as little-endian bytes
EntryBytes(es) ==
  [i \in 1..(2 * Len(es)) |->
     IF i % 2 = 1 THEN es[(i + 1) \div 2] % 256 ELSE es[i \div 2] \div 256]

RECURSIVE rebuild(_)
rebuild(dir) ==
  IF dir = <<>> THEN <<>>
  ELSE W32(Head(dir).va) \o W32(Head(dir).size) \o EntryBytes(Head(dir).data)
         \o rebuild(Tail(dir))

(***************************************************************************)
(* The input file.  One data section followed by the relocation section.   *)
(***************************************************************************)
\* .rdata at RVA 0x2000, .reloc on the page after it, PE header at file offset 0x80
Layout ==
  [DataRVA |-> 8192, DataRawPtr |-> 1024, RelocRawSize |-> 16,
   AddressOfPeHeader |-> 128, SectionAlignment |-> 4096]
DataRVA == Layout.DataRVA

AlignUp(n, a) == IF n % a = 0 THEN n ELSE n + (a - (n % a))

RelocRVA(in) == DataRVA + AlignUp(Len(in.data), Layout.SectionAlignment)
RelocRawPtr(in) == Layout.DataRawPtr + AlignUp(Len(in.data), FileAlign)

RelocEntryChoices ==
  {Entry(3, 0), Entry(3, 1), Entry(3, 4), Entry(1, 2), Entry(0, 0), Entry(4, 4)}

RECURSIVE SeqsUpTo(_, _)
SeqsUpTo(S, n) ==
  IF n = 0 THEN {<<>>}
  ELSE LET shorter == SeqsUpTo(S, n - 1)
       IN  shorter \cup {Append(s, x) : s \in {t \in shorter : Len(t) = n - 1}, x \in S}

\* a relocation block lists a position once
Distinct(es) == \A i, j \in 1..Len(es) : i # j => es[i] # es[j]

RelocTable(es) ==
  IF es = <<>> THEN <<>> ELSE <<[va |-> DataRVA, size |-> 8 + 2 * Len(es), data |-> es]>>

\* the input tables of SpecRebase: every table of up to MaxRelocEntries entries
InputRelocTables ==
  {RelocTable(es) : es \in {t \in SeqsUpTo(RelocEntryChoices, MaxRelocEntries) : Distinct(t)}}

\* the input tables of Spec: none, one fixup, one fixup then an unknown type
PipelineRelocTables ==
  {RelocTable(<<>>), RelocTable(<<Entry(3, 0)>>), RelocTable(<<Entry(3, 0), Entry(4, 4)>>)}

\* 0x00401234, "hihi", then "yo" as the last two bytes of the section
InputDatas == {<<52, 18, 64, 0, 104, 105, 104, 105, 0, 0, 121, 111>>}

\* the same bytes followed by zeroes, one page and two slots long
LargeInputDatas ==
  {[i \in 1..(chunkSize + 2 * dataSize) |-> IF i <= Len(d) THEN d[i] ELSE 0] : d \in InputDatas}

\* the values of the slots of an import address table: empty, or the RVA of
\* a name at .rdata+0 or .rdata+4
ImportNameRVAs == {W32(0), W32(DataRVA), W32(DataRVA + 4)}

\* sections that end with an import address table of two slots
ImportDatas ==
  {<<52, 18, 64, 0, 104, 105, 104, 105>> \o a \o b : a \in ImportNameRVAs, b \in ImportNameRVAs}

\* the size of the import address table, which starts at .rdata+8
InputIatSize(in) == IF in.data \in ImportDatas THEN 2 * dataSize ELSE dataSize

InputImageBases == {<<0, 0, 64, 0>>, TRICKY_BASE_ADDRESS}   \* 0x00400000, 0xFFFF0000

InputCharacteristics == {320}    \* NX_COMPAT | DYNAMIC_BASE

InputEntryPoint == W32(DataRVA + 4)

InputSectionTable(in) ==
  << [name |-> ".rdata", va |-> DataRVA, vsize |-> Len(in.data),
      rawsize |-> Len(in.data), rawptr |-> Layout.DataRawPtr],
     [name |-> ".reloc", va |-> RelocRVA(in), vsize |-> Len(rebuild(in.reloc)),
      rawsize |-> Layout.RelocRawSize, rawptr |-> RelocRawPtr(in)] >>

\* the bytes file.read() delivers for section `index` of the input file
InputSectionData(in, index) ==
  IF index = 0 THEN in.data
  ELSE IF index = 1
  THEN LET raw == rebuild(in.reloc)
       IN  [i \in 1..Layout.RelocRawSize |-> IF i <= Len(raw) THEN raw[i] ELSE 0]
  ELSE <<>>

NoHeader ==
  [imageBase |-> <<0, 0, 0, 0>>, dllCharacteristics |-> 0, entryPoint |-> <<0, 0, 0, 0>>,
   sections |-> <<>>, iddBaseRelocRva |-> 0, iddBaseRelocSize |-> 0,
   iddIatRva |-> 0, iddIatSize |-> 0, iddImportRva |-> 0, iddImportSize |-> 0]

\* PeLib::PeFile32::readPeHeader
readPeHeader(in) ==
  [imageBase |-> in.imageBase, dllCharacteristics |-> in.dllCharacteristics,
   entryPoint |-> InputEntryPoint, sections |-> InputSectionTable(in),
   iddBaseRelocRva |-> RelocRVA(in), iddBaseRelocSize |-> Len(rebuild(in.reloc)),
   iddIatRva |-> DataRVA + 8, iddIatSize |-> InputIatSize(in), iddImportRva |-> 0, iddImportSize |-> 0]

(***************************************************************************)
(* State                                                                   *)
(***************************************************************************)
VARIABLES
  input,              \* the input file on disk (never written)
  shouldUseWin10Attack,
  peFile,             \* TRUE when this->peFile is set
  peHeader,           \* peFile->peHeader()
  relocDir,           \* peFile->relocDir()
  sectionContents,    \* std::vector<shared_ptr<PeSectionContents>>
  rewriteBlocks,      \* std::vector<shared_ptr<RewriteBlock>>
  packedBlocks,       \* the packedBlocks list of the last writeOutputFile call
  output,             \* what the last writeOutputFile call wrote
  ret,                \* [op, ok]: the last operation and its return value
  rebaserHasRun,      \* history: performOnDiskRelocations has returned true
  errorLine,          \* the line the last operation wrote to errorStream, or ""
  loadCalls,
  rebaseCalls,
  writeCalls,
  callsAfterWrite

vars == <<input, shouldUseWin10Attack, peFile, peHeader, relocDir,
          sectionContents, rewriteBlocks, packedBlocks, output, ret, rebaserHasRun, errorLine,
          loadCalls, rebaseCalls, writeCalls, callsAfterWrite>>

NoOutput == [written |-> FALSE]

InitWith(bases, tables, datas) ==
  /\ input \in [imageBase : bases, dllCharacteristics : InputCharacteristics,
                reloc : tables, data : datas]
  /\ shouldUseWin10Attack = FALSE
  /\ peFile = FALSE
  /\ peHeader = NoHeader
  /\ relocDir = <<>>
  /\ sectionContents = <<>>
  /\ rewriteBlocks = <<>>
  /\ packedBlocks = <<>>
  /\ output = NoOutput
  /\ ret = [op |-> "init", ok |-> TRUE]
  /\ rebaserHasRun = FALSE
  /\ errorLine = ""
  /\ loadCalls = 0
  /\ rebaseCalls = 0
  /\ writeCalls = 0
  /\ callsAfterWrite = 0

Init == InitWith(InputImageBases, PipelineRelocTables, InputDatas)

InitRebase == InitWith(InputImageBases, InputRelocTables, InputDatas)

\* an image linked at 0x00400000 with one fixup and a section longer than a page
InitPack == InitWith({<<0, 0, 64, 0>>}, {RelocTable(<<Entry(3, 0)>>)}, LargeInputDatas)

\* an operation other than writeOutputFile is invoked
Call ==
  /\ writeCalls = 0 \/ callsAfterWrite < MaxCallsAfterWrite
  /\ callsAfterWrite' = IF writeCalls = 0 THEN 0 ELSE callsAfterWrite + 1

Return(op, ok, err) ==
  /\ ret' = [op |-> op, ok |-> ok]
  /\ rebaserHasRun' = (rebaserHasRun \/ (op = "performOnDiskRelocations" /\ ok))
  /\ errorLine' = err

(***************************************************************************)
(* Configuration toggles                                                   *)
(***************************************************************************)
useWindows10Attack(win10) ==
  /\ Call
  /\ shouldUseWin10Attack' = win10
  /\ Return("useWindows10Attack", TRUE, "")
  /\ UNCHANGED <<input, peFile, peHeader, relocDir, sectionContents,
                 rewriteBlocks, packedBlocks, output, loadCalls, rebaseCalls, writeCalls>>

(***************************************************************************)
(* loadInputFile: a fresh PeFile32 replaces this->peFile on success        *)
(***************************************************************************)
loadInputFile ==
  /\ Call
  /\ \E read \in {"ok", "Failed to read MzHeader", "Failed to read PeHeader"} :
       IF read = "ok"
       THEN /\ loadCalls < MaxLoadCalls
            /\ loadCalls' = loadCalls + 1
            /\ peFile' = TRUE
            /\ peHeader' = readPeHeader(input)
            /\ relocDir' = <<>>
            /\ Return("loadInputFile", TRUE, "")
       ELSE /\ UNCHANGED <<peFile, peHeader, relocDir, loadCalls>>
            /\ Return("loadInputFile", FALSE, read)
  /\ UNCHANGED <<input, shouldUseWin10Attack, sectionContents,
                 rewriteBlocks, packedBlocks, output, rebaseCalls, writeCalls>>

(***************************************************************************)
(* Section lookup                                                          *)
(***************************************************************************)
\* the loop condition of getSectionByRVA; RVA and size are uint32_t words and
\* RVA + size wraps
SecContains(sec, RVA, size) ==
  LET end == W32(sec.RVA + sec.size)
  IN  ~(Lt32(RVA, W32(sec.RVA)) \/ ~Lt32(RVA, end) \/ Lt32(end, Add32(RVA, size)))

\* position (1-based) in sectionContents of the first section holding
\* [RVA, RVA+size), or 0 for nullptr; RVA and size are 32-bit words
getSectionByRVA32(secs, RVA, size) ==
  IF RVA = <<0, 0, 0, 0>> \/ size = <<0, 0, 0, 0>> THEN 0
  ELSE LET hits == {i \in 1..Len(secs) : SecContains(secs[i], RVA, size)}
       IN  IF hits = {} THEN 0 ELSE CHOOSE i \in hits : \A j \in hits : i <= j

\* the same for RVA and size below 2^31
getSectionByRVA(secs, RVA, size) == getSectionByRVA32(secs, W32(RVA), W32(size))

\* PeSectionContents constructor
PeSectionContents(index, hdr, in) ==
  [index |-> index,
   RVA |-> hdr.sections[index + 1].va,
   size |-> hdr.sections[index + 1].rawsize,
   rawPointer |-> hdr.sections[index + 1].rawptr,
   virtualSize |-> hdr.sections[index + 1].vsize,
   name |-> hdr.sections[index + 1].name,
   data |-> InputSectionData(in, index)]

(***************************************************************************)
(* loadInputSections                                                       *)
(***************************************************************************)
RECURSIVE LoadSections(_, _, _, _)
LoadSections(secs, hdr, in, sec) ==
  IF sec >= Len(hdr.sections) THEN secs
  ELSE LoadSections(Append(secs, PeSectionContents(sec, hdr, in)), hdr, in, sec + 1)

loadInputSections ==
  /\ Call
  /\ Len(sectionContents) + Len(peHeader.sections) <= MaxSectionContents
  /\ IF ~peFile
     THEN /\ UNCHANGED sectionContents
          /\ Return("loadInputSections", FALSE, "")
     ELSE \E openOk \in BOOLEAN :
       IF ~openOk
       THEN /\ UNCHANGED sectionContents
            /\ Return("loadInputSections", FALSE,
                      "Failed to open original file for section reading")
       ELSE LET secs == LoadSections(sectionContents, peHeader, input, 0)
                relocSec == getSectionByRVA(secs, peHeader.iddBaseRelocRva, 4)
            IN  /\ sectionContents' = secs
                /\ IF relocSec = 0
                   THEN Return("loadInputSections", FALSE, "Failed to locate reloc section!")
                   ELSE IF secs[relocSec].index # Len(peHeader.sections) - 1
                   THEN Return("loadInputSections", FALSE, "Reloc section is not final section")
                   ELSE Return("loadInputSections", TRUE, "")
  /\ UNCHANGED <<input, shouldUseWin10Attack, peFile, peHeader, relocDir,
                 rewriteBlocks, packedBlocks, output, loadCalls, rebaseCalls, writeCalls>>

(***************************************************************************)
(* performOnDiskRelocations                                                *)
(***************************************************************************)
\* if (entryType & IMAGE_REL_BASED_HIGHLOW)
IsHighLow(entryType) == BitAnd(entryType, IMAGE_REL_BASED_HIGHLOW) # 0

\* the value written back with its sign flipped
RelocatedDown(original, relocDelta) == Sub32(original, relocDelta)

\* line 270: original + relocDelta
Relocated(original, relocDelta) == Add32(original, relocDelta)

\* one pass of the inner loop body: [ok, secs, err]
RelocEntry(secs, sc, relocBlockRVA, entry, relocDelta) ==
  LET entryType == entry \div 4096
      entryAddress == relocBlockRVA + BitAnd(entry, 4095)
      si == entryAddress - secs[sc].RVA
  IN  IF IsHighLow(entryType)
      THEN IF ~getDataOk(secs[sc].data, si)
           THEN [ok |-> FALSE, secs |-> secs, err |-> "Failed to read original value to reloc!"]
           ELSE [ok |-> TRUE,
                 secs |-> [secs EXCEPT ![sc].data =
                             putData(@, si, Relocated(getData(@, si), relocDelta))],
                 err |-> ""]
      ELSE IF entryType # 0
      THEN [ok |-> FALSE, secs |-> secs, err |-> "Unknown reloc type"]
      ELSE [ok |-> TRUE, secs |-> secs, err |-> ""]

\* the inner loop over the entries of one block, from relEntry on
RECURSIVE RelocBlock(_, _, _, _, _, _)
RelocBlock(secs, sc, relocBlockRVA, data, relEntry, relocDelta) ==
  IF relEntry > Len(data) THEN [ok |-> TRUE, secs |-> secs, err |-> ""]
  ELSE LET r == RelocEntry(secs, sc, relocBlockRVA, data[relEntry], relocDelta)
       IN  IF ~r.ok THEN r
           ELSE RelocBlock(r.secs, sc, relocBlockRVA, data, relEntry + 1, relocDelta)

\* the outer loop over the blocks of the directory, from rel on
RECURSIVE RelocAll(_, _, _, _)
RelocAll(secs, reloc, rel, relocDelta) ==
  IF rel > Len(reloc) THEN [ok |-> TRUE, secs |-> secs, err |-> ""]
  ELSE LET sc == getSectionByRVA(secs, reloc[rel].va, 4)
       IN  IF sc = 0
           THEN [ok |-> FALSE, secs |-> secs, err |-> "Reloc has no matching section!"]
           ELSE LET r == RelocBlock(secs, sc, reloc[rel].va, reloc[rel].data, 1, relocDelta)
                IN  IF ~r.ok THEN r ELSE RelocAll(r.secs, reloc, rel + 1, relocDelta)

\* lines 205-224: the DllCharacteristics the header is left with
RebasedCharacteristics(win10, characteristics) ==
  IF ~win10
  THEN BitAndNot(characteristics, IMAGE_DLLCHARACTERISTICS_DYNAMIC_BASE)
  ELSE IF BitAnd(characteristics, IMAGE_DLLCHARACTERISTICS_DYNAMIC_BASE) # 0
  THEN characteristics
  ELSE BitAnd(characteristics, IMAGE_DLLCHARACTERISTICS_DYNAMIC_BASE)

\* lines 227-235: the ImageBase the header is left with
RebasedImageBase(win10, requestedBase) ==
  IF ~win10 THEN TRICKY_BASE_ADDRESS ELSE requestedBase

\* the table cleared in standard mode only
KeptInWin10RelocTable(win10, reloc) == IF win10 THEN reloc ELSE <<>>

\* lines 285-287: the directory after a successful pass
ClearedRelocTable(win10, reloc) == <<>>

performOnDiskRelocations ==
  /\ Call
  /\ IF ~peFile
     THEN /\ UNCHANGED <<peHeader, relocDir, sectionContents, rebaseCalls>>
          /\ Return("performOnDiskRelocations", FALSE, "")
     ELSE IF Len(sectionContents) = 0
     THEN /\ UNCHANGED <<peHeader, relocDir, sectionContents, rebaseCalls>>
          /\ Return("performOnDiskRelocations", FALSE,
                    "Section contents must be loaded before doing any relocations!")
     ELSE IF BitAnd(peHeader.dllCharacteristics, IMAGE_DLLCHARACTERISTICS_DYNAMIC_BASE)
               # IMAGE_DLLCHARACTERISTICS_DYNAMIC_BASE
     THEN /\ UNCHANGED <<peHeader, relocDir, sectionContents, rebaseCalls>>
          /\ Return("performOnDiskRelocations", FALSE,
                    "Binary must have ASLR enabled to perform on-disk relocations!")
     ELSE \E readOk \in BOOLEAN :
       IF ~readOk
       THEN /\ UNCHANGED <<peHeader, relocDir, sectionContents, rebaseCalls>>
            /\ Return("performOnDiskRelocations", FALSE, "Failed to read reloc directory!")
       ELSE LET characteristics == peHeader.dllCharacteristics
                requestedBase == peHeader.imageBase
                reloc == input.reloc      \* readRelocationsDirectory()
                relocDelta == Sub32(ACTUALIZED_BASE_ADDRESS, requestedBase)
                r == RelocAll(sectionContents, reloc, 1, relocDelta)
            IN  /\ rebaseCalls < MaxRebaseCalls
                /\ rebaseCalls' = rebaseCalls + 1
                /\ peHeader' = [peHeader EXCEPT
                     !.dllCharacteristics =
                        RebasedCharacteristics(shouldUseWin10Attack, characteristics),
                     !.imageBase = RebasedImageBase(shouldUseWin10Attack, requestedBase)]
                /\ sectionContents' = r.secs
                /\ relocDir' = IF r.ok THEN ClearedRelocTable(shouldUseWin10Attack, reloc)
                               ELSE reloc
                /\ Return("performOnDiskRelocations", r.ok, r.err)
  /\ UNCHANGED <<input, shouldUseWin10Attack, peFile, rewriteBlocks,
                 packedBlocks, output, loadCalls, writeCalls>>

(***************************************************************************)
(* Rewrite blocks (RewriteBlock.h).  A block is [kind, sec, offset, size]: *)
(* kind "EntryPoint" and "BaseAddress" name one header field; kind         *)
(* "Section" names the byte range [offset, offset + size) of the section   *)
(* object at position sec of sectionContents.  size is a uint32_t word.    *)
(***************************************************************************)
HeaderFieldRVA(kind) ==
  IF kind = "EntryPoint" THEN Layout.AddressOfPeHeader + 40
  ELSE Layout.AddressOfPeHeader + 52

EntryPointRewriteBlock == [kind |-> "EntryPoint", sec |-> 0, offset |-> 0, size |-> W32(4)]

BaseAddressRewriteBlock == [kind |-> "BaseAddress", sec |-> 0, offset |-> 0, size |-> W32(4)]

PeSectionRewriteBlock(sec, offset, size) ==
  [kind |-> "Section", sec |-> sec, offset |-> offset, size |-> size]

NoLoc == [some |-> FALSE, rva |-> 0, offset |-> 0]

getFirstEntryLoc(secs, block) ==
  IF block.kind = "Section"
  THEN IF block.size = <<0, 0, 0, 0>> THEN NoLoc
       ELSE [some |-> TRUE, rva |-> secs[block.sec].RVA + block.offset,
             offset |-> block.offset]
  ELSE [some |-> TRUE, rva |-> HeaderFieldRVA(block.kind), offset |-> 0]

getNextEntryLoc(secs, block, lastOffset) ==
  IF block.kind = "Section"
  THEN LET next == lastOffset + dataSize
       IN  IF Lt32(W32(next), Add32(W32(block.offset), block.size))
           THEN [some |-> TRUE, rva |-> secs[block.sec].RVA + next, offset |-> next]
           ELSE NoLoc
  ELSE NoLoc

\* decrementEntry on the image m = [hdr, secs]: [ok, m]
decrementEntry(m, block, offset, value) ==
  IF block.kind = "EntryPoint"
  THEN [ok |-> TRUE, m |-> [m EXCEPT !.hdr.entryPoint = Sub32(@, value)]]
  ELSE IF block.kind = "BaseAddress"
  THEN [ok |-> TRUE, m |-> [m EXCEPT !.hdr.imageBase = Sub32(@, value)]]
  ELSE IF ~getDataOk(m.secs[block.sec].data, offset)
  THEN [ok |-> FALSE, m |-> m]
  ELSE [ok |-> TRUE,
        m |-> [m EXCEPT !.secs[block.sec].data =
                 putData(@, offset, Sub32(getData(@, offset), value))]]

\* addRewriteBlock with multiPass = false
addRewriteBlock(blocks, block) == Append(blocks, block)

(***************************************************************************)
(* Rewrite collector                                                       *)
(***************************************************************************)
\* [ok, err]
doRewriteReadyCheck ==
  IF ~peFile THEN [ok |-> FALSE, err |-> ""]
  ELSE IF Len(sectionContents) = 0
  THEN [ok |-> FALSE, err |-> "Section contents must be loaded before doing rewrites!"]
  ELSE IF (Len(relocDir) # 0 \/ peHeader.imageBase # TRICKY_BASE_ADDRESS)
            /\ ~shouldUseWin10Attack
  THEN [ok |-> FALSE, err |-> "On-disk relocations must be performed before doing rewrites!"]
  ELSE [ok |-> TRUE, err |-> ""]

\* what a collector leaves alone
CollectorFrame ==
  /\ Call
  /\ UNCHANGED <<input, shouldUseWin10Attack, peFile, peHeader, relocDir, sectionContents,
                 packedBlocks, output, loadCalls, rebaseCalls, writeCalls>>

Queue(blocks) ==
  /\ Len(blocks) <= MaxBlocks
  /\ rewriteBlocks' = blocks

rewriteHeader ==
  /\ LET ready == doRewriteReadyCheck
     IN  IF ~ready.ok
         THEN /\ UNCHANGED rewriteBlocks
              /\ Return("rewriteHeader", FALSE, ready.err)
         ELSE /\ IF ~shouldUseWin10Attack
                 THEN Queue(addRewriteBlock(rewriteBlocks, EntryPointRewriteBlock))
                 ELSE UNCHANGED rewriteBlocks
              /\ Return("rewriteHeader", TRUE, "")
  /\ CollectorFrame

fixupBase ==
  /\ LET ready == doRewriteReadyCheck
     IN  IF ~ready.ok
         THEN /\ UNCHANGED rewriteBlocks
              /\ Return("fixupBase", FALSE, ready.err)
         ELSE /\ Queue(addRewriteBlock(rewriteBlocks, BaseAddressRewriteBlock))
              /\ Return("fixupBase", TRUE, "")
  /\ CollectorFrame

SectionNames == {".rdata", ".reloc", ".nonexistent"}

rewriteSection(name) ==
  /\ LET ready == doRewriteReadyCheck
         named == {i \in 1..Len(sectionContents) : sectionContents[i].name = name}
     IN  IF ~ready.ok
         THEN /\ UNCHANGED rewriteBlocks
              /\ Return("rewriteSection", FALSE, ready.err)
         ELSE /\ IF named # {}
                 THEN LET sec == CHOOSE i \in named : \A j \in named : i <= j
                      IN  Queue(addRewriteBlock(rewriteBlocks,
                            PeSectionRewriteBlock(sec, 0, W32(sectionContents[sec].size))))
                 ELSE UNCHANGED rewriteBlocks
              /\ Return("rewriteSection", TRUE, "")
  /\ CollectorFrame

\* rewriteSubsectionByRVA: [ok, blocks]
rewriteSubsectionByRVA(blocks, RVA, size) ==
  LET sec == getSectionByRVA32(sectionContents, RVA, size)
  IN  IF sec = 0 THEN [ok |-> FALSE, blocks |-> blocks]
      ELSE [ok |-> TRUE,
            blocks |-> addRewriteBlock(blocks,
               PeSectionRewriteBlock(sec, ToInt(Sub32(RVA, W32(sectionContents[sec].RVA))),
                                     size))]

\* the scan of the IAT slots from offset imp on, lines 381-389: [lo, hi]
RECURSIVE ScanNames(_, _, _, _, _)
ScanNames(data, imp, end, lowestNameRVA, highestNameRVA) ==
  IF ~(imp < end) \/ ~getDataOk(data, imp)
  THEN [lo |-> lowestNameRVA, hi |-> highestNameRVA]
  ELSE LET temp == getData(data, imp)
       IN  IF temp = <<0, 0, 0, 0>>
           THEN ScanNames(data, imp + 4, end, lowestNameRVA, highestNameRVA)
           ELSE IF Lt32(temp, lowestNameRVA)
           THEN ScanNames(data, imp + 4, end, temp, highestNameRVA)
           ELSE IF Lt32(highestNameRVA, temp)
           THEN ScanNames(data, imp + 4, end, lowestNameRVA, temp)
           ELSE ScanNames(data, imp + 4, end, lowestNameRVA, highestNameRVA)

rewriteImports ==
  /\ LET ready == doRewriteReadyCheck
     IN  IF ~ready.ok
         THEN /\ UNCHANGED rewriteBlocks
              /\ Return("rewriteImports", FALSE, ready.err)
         ELSE IF shouldUseWin10Attack
         THEN /\ UNCHANGED rewriteBlocks
              /\ Return("rewriteImports", TRUE, "")
         ELSE LET iatRVA == peHeader.iddIatRva
                  iatSize == peHeader.iddIatSize
                  b1 == rewriteSubsectionByRVA(rewriteBlocks, W32(iatRVA), W32(iatSize)).blocks
                  b2 == rewriteSubsectionByRVA(b1, W32(peHeader.iddImportRva),
                                               W32(peHeader.iddImportSize)).blocks
                  iatSec == getSectionByRVA(sectionContents, iatRVA, iatSize)
                  b3 == IF iatSec = 0 THEN b2
                        ELSE LET iatOffset == iatRVA - sectionContents[iatSec].RVA
                                 names == ScanNames(sectionContents[iatSec].data, iatOffset,
                                                    iatOffset + iatSize,
                                                    <<255, 255, 255, 255>>, <<0, 0, 0, 0>>)
                             IN  rewriteSubsectionByRVA(b2, names.lo,
                                                        Sub32(names.hi, names.lo)).blocks
              IN  /\ Queue(b3)
                  /\ Return("rewriteImports", TRUE, "")
  /\ CollectorFrame

Needles == {<<104, 105>>, <<121, 111>>}     \* "hi", "yo"

IsMatch(data, needle, index) ==
  /\ index + Len(needle) <= Len(data)
  /\ \A k \in 1..Len(needle) : data[index + k] = needle[k]

\* the search loop over one section from offset `from` on
RECURSIVE MatchesInSection(_, _, _, _)
MatchesInSection(blocks, sec, needle, from) ==
  LET data == sectionContents[sec].data
      hits == {i \in from..(Len(data) - Len(needle)) : IsMatch(data, needle, i)}
  IN  IF hits = {} THEN blocks
      ELSE LET index == CHOOSE i \in hits : \A j \in hits : i <= j
           IN  MatchesInSection(
                 addRewriteBlock(blocks, PeSectionRewriteBlock(sec, index, W32(Len(needle) + 1))),
                 sec, needle, index + 1)

RECURSIVE MatchesInAll(_, _, _)
MatchesInAll(blocks, sec, needle) ==
  IF sec > Len(sectionContents) THEN blocks
  ELSE MatchesInAll(MatchesInSection(blocks, sec, needle, 0), sec + 1, needle)

rewriteMatches(needle) ==
  /\ LET ready == doRewriteReadyCheck
     IN  IF ~ready.ok
         THEN /\ UNCHANGED rewriteBlocks
              /\ Return("rewriteMatches", FALSE, ready.err)
         ELSE /\ Queue(MatchesInAll(rewriteBlocks, 1, needle))
              /\ Return("rewriteMatches", TRUE, "")
  /\ CollectorFrame


(***************************************************************************)
(* writeOutputFile                                                         *)
(***************************************************************************)
\* PackedBlock(_beginRVA); owner is the position in rewriteBlocks of the
\* block being consumed when the packed block was pushed (history only)
PackedBlock(beginRVA, owner) == [beginRVA |-> beginRVA, offsets |-> <<>>, owner |-> owner]

\* line 488: static_cast<uint16_t>(rva - packedBlock->beginRVA)
RvaOffset(rva, beginRVA) == (rva - beginRVA) % 65536

\* a new packed block put behind the others instead of in front of them
PackEntryAtBack(packed, rva, owner) ==
  LET rvaOffset == RvaOffset(rva, packed[1].beginRVA)
  IN  IF rvaOffset >= chunkSize
      THEN packed \o <<[PackedBlock(rva, owner) EXCEPT !.offsets = <<0>>]>>
      ELSE [packed EXCEPT ![1].offsets = Append(@, rvaOffset)]

\* lines 487-496: record the slot at rva in the list of packed blocks
PackEntry(packed, rva, owner) ==
  LET rvaOffset == RvaOffset(rva, packed[1].beginRVA)
  IN  IF rvaOffset >= chunkSize
      THEN <<[PackedBlock(rva, owner) EXCEPT !.offsets = <<0>>]>> \o packed
      ELSE [packed EXCEPT ![1].offsets = Append(@, rvaOffset)]

\* one pass of the body of the do-while loop of lines 482-498 and its
\* condition; st = [m, packed, more, rva, offset], more = FALSE once the loop
\* has been left
SlotStep(st, block, owner, packDelta) ==
  LET d == decrementEntry(st.m, block, st.offset, packDelta)
      next == getNextEntryLoc(st.m.secs, block, st.offset)
  IN  IF ~st.more THEN st
      ELSE IF ~d.ok THEN [st EXCEPT !.more = FALSE]
      ELSE [m |-> d.m, packed |-> PackEntry(st.packed, st.rva, owner),
            more |-> next.some, rva |-> next.rva, offset |-> next.offset]

\* up to n passes of the loop, evaluated by halves
RECURSIVE SlotLoop(_, _, _, _, _)
SlotLoop(st, block, owner, packDelta, n) ==
  IF n = 0 \/ ~st.more THEN st
  ELSE IF n = 1 THEN SlotStep(st, block, owner, packDelta)
  ELSE LET half == SlotLoop(st, block, owner, packDelta, n \div 2)
       IN  SlotLoop(half, block, owner, packDelta, n - (n \div 2))

\* the loop leaves a section block no later than the first slot past the
\* section's bytes, where decrementEntry fails
MaxSlots(secs, block) ==
  IF block.kind = "Section" THEN Len(secs[block.sec].data) \div dataSize + 1 ELSE 1

\* the for loop of lines 471-499 from block iblock on: [m, packed]
RECURSIVE ApplyRewrites(_, _, _, _, _)
ApplyRewrites(m, packed, blocks, iblock, packDelta) ==
  IF iblock > Len(blocks) THEN [m |-> m, packed |-> packed]
  ELSE LET block == blocks[iblock]
           first == getFirstEntryLoc(m.secs, block)
       IN  IF ~first.some THEN ApplyRewrites(m, packed, blocks, iblock + 1, packDelta)
           ELSE LET r == SlotLoop([m |-> m,
                                   packed |-> <<PackedBlock(first.rva, iblock)>> \o packed,
                                   more |-> TRUE, rva |-> first.rva, offset |-> first.offset],
                                  block, iblock, packDelta, MaxSlots(m.secs, block))
                IN  ApplyRewrites(r.m, r.packed, blocks, iblock + 1, packDelta)

\* the subtraction of line 468 with its operands exchanged
PackDeltaReversed(requestedBase) == Sub32(requestedBase, ACTUALIZED_BASE_ADDRESS)

\* lines 467-468
PackDelta(requestedBase) == Sub32(ACTUALIZED_BASE_ADDRESS, requestedBase)

\* lines 517-535: the relocation block generated for one packed block
RelocOfPacked(packedBlock) ==
  LET n == Len(packedBlock.offsets)
      fix == [i \in 1..n |->
                IMAGE_REL_BASED_HIGHLOW * 4096 + BitAnd(packedBlock.offsets[i], 4095)]
  IN  [va |-> packedBlock.beginRVA,
       size |-> IF n % 2 = 1 THEN n * 2 + 8 + 2 ELSE n * 2 + 8,
       data |-> IF n % 2 = 1 THEN Append(fix, 0) ELSE fix]

\* lines 513-536: the directory generated from the packed blocks, in list order
GenerateRelocs(packed) == [i \in 1..Len(packed) |-> RelocOfPacked(packed[i])]

\* PeLib::PeHeaderT::addSection

RECURSIVE MaxOver(_, _, _)
MaxOver(f, n, acc) == IF n = 0 THEN acc ELSE MaxOver(f, n - 1, IF f[n] > acc THEN f[n] ELSE acc)

addSection(hdr, name, size) ==
  LET secs == hdr.sections
      vend == MaxOver([i \in 1..Len(secs) |-> secs[i].va + secs[i].vsize], Len(secs), 0)
      rend == MaxOver([i \in 1..Len(secs) |-> secs[i].rawptr + secs[i].rawsize], Len(secs), 0)
  IN  [hdr EXCEPT !.sections = Append(@,
         [name |-> name, va |-> AlignUp(vend, Layout.SectionAlignment),
          vsize |-> AlignUp(size, Layout.SectionAlignment),
          rawsize |-> AlignUp(size, FileAlign), rawptr |-> AlignUp(rend, FileAlign)])]

\* allocSection with the section pool empty (lines 707-731): [hdr, secs, sec]
allocSection(hdr, secs, name, size) ==
  LET hdr1 == addSection(hdr, name, size)
      index == Len(hdr1.sections) - 1
      h == hdr1.sections[index + 1]
      newSec == [index |-> index, RVA |-> h.va, size |-> h.rawsize, rawPointer |-> h.rawptr,
                 virtualSize |-> h.vsize, name |-> h.name, data |-> <<>>]
  IN  [hdr |-> hdr1, secs |-> Append(secs, newSec), sec |-> Len(secs) + 1]

\* prepareStub (ASLRPreselectionStub.h): the stub bytes for an entry point
prepareStub(originalEntrypoint) == <<104>> \o originalEntrypoint \o <<195>>

\* lines 567-601: [hdr, secs]
InjectStub(hdr, secs) ==
  LET stub == prepareStub(hdr.entryPoint)
      a == allocSection(hdr, secs, ".presel", Len(stub))
      hdr2 == addSection(a.hdr, ".presel", Len(stub))
  IN  [hdr |-> [hdr2 EXCEPT !.entryPoint = W32(a.secs[a.sec].RVA)],
       secs |-> [a.secs EXCEPT ![a.sec].data = @ \o stub]]

\* lines 553-559: [hdr, secs]
EmbedRelocs(hdr, secs, relocSec, reloc) ==
  LET raw == rebuild(reloc)
      padded == PadTo(raw, FileAlign)
      index == secs[relocSec].index
  IN  [hdr |-> [hdr EXCEPT !.sections[index + 1].vsize = Len(raw),
                           !.iddBaseRelocSize = Len(raw),
                           !.sections[index + 1].rawsize = Len(padded)],
       secs |-> [secs EXCEPT ![relocSec].data = padded]]

\* lines 603-620: what reaches the output file
Written(hdr, secs) ==
  [written |-> TRUE, imageBase |-> hdr.imageBase,
   dllCharacteristics |-> hdr.dllCharacteristics, entryPoint |-> hdr.entryPoint,
   sections |-> hdr.sections,
   data |-> [i \in {j \in 1..Len(secs) : secs[j].size # 0} |->
               [index |-> secs[i].index, bytes |-> secs[i].data]]]

\* everything writeOutputFile does once past its two entry checks:
\* [hdr, secs, reloc, packed, written, ok, err]
WriteResult(hdr, secs, reloc, blocks, win10, stubOk) ==
  LET s1 == ApplyRewrites([hdr |-> hdr, secs |-> secs], <<>>, blocks, 1,
                          PackDelta(hdr.imageBase))
      stop(h, s, r, err) ==
        [hdr |-> h, secs |-> s, reloc |-> r, packed |-> s1.packed,
         written |-> FALSE, ok |-> FALSE, err |-> err]
      done(h, s, r) ==
        [hdr |-> h, secs |-> s, reloc |-> r, packed |-> s1.packed,
         written |-> TRUE, ok |-> TRUE, err |-> ""]
  IN  IF Len(s1.packed) # 0 /\ Len(reloc) # 0
      THEN stop(s1.m.hdr, s1.m.secs, reloc,
                "No relocation table should exist if rewrites are present!")
      ELSE
        LET reloc2 == IF Len(s1.packed) # 0 THEN GenerateRelocs(s1.packed) ELSE reloc
            relocSec == getSectionByRVA(s1.m.secs, s1.m.hdr.iddBaseRelocRva, 4)
        IN  IF relocSec = 0
            THEN stop(s1.m.hdr, s1.m.secs, reloc2, "Failed to locate reloc section!")
            ELSE
              LET s3 == EmbedRelocs(s1.m.hdr, s1.m.secs, relocSec, reloc2)
              IN  IF ~win10 THEN done(s3.hdr, s3.secs, reloc2)
                  ELSE IF ~stubOk
                  THEN stop(s3.hdr, s3.secs, reloc2, "Failed to inject ASLR preselection stub!")
                  ELSE LET s4 == InjectStub(s3.hdr, s3.secs)
                       IN  done(s4.hdr, s4.secs, reloc2)

\* writeOutputFile, called at most `calls` times past its entry checks
writeOutputFileWithin(calls) ==
  /\ IF ~peFile
     THEN /\ UNCHANGED <<peHeader, relocDir, sectionContents, packedBlocks, output, writeCalls>>
          /\ Return("writeOutputFile", FALSE, "")
     ELSE IF Len(sectionContents) = 0
     THEN /\ UNCHANGED <<peHeader, relocDir, sectionContents, packedBlocks, output, writeCalls>>
          /\ Return("writeOutputFile", FALSE,
                    "Section contents must be loaded before writing output!")
     ELSE
       /\ writeCalls < calls
       /\ writeCalls' = writeCalls + 1
       /\ \E stubOk \in (IF shouldUseWin10Attack THEN BOOLEAN ELSE {TRUE}) :
            \E w \in {WriteResult(peHeader, sectionContents, relocDir, rewriteBlocks,
                                  shouldUseWin10Attack, stubOk)} :
              /\ peHeader' = w.hdr
              /\ sectionContents' = w.secs
              /\ relocDir' = w.reloc
              /\ packedBlocks' = w.packed
              /\ output' = IF w.written THEN Written(w.hdr, w.secs) ELSE output
              /\ Return("writeOutputFile", w.ok, w.err)
  /\ UNCHANGED <<input, shouldUseWin10Attack, peFile, rewriteBlocks, loadCalls, rebaseCalls,
                 callsAfterWrite>>

writeOutputFile == writeOutputFileWithin(MaxWriteCalls)

Next ==
  \/ \E win10 \in BOOLEAN : useWindows10Attack(win10)
  \/ loadInputFile
  \/ loadInputSections
  \/ performOnDiskRelocations
  \/ rewriteHeader
  \/ fixupBase
  \/ \E name \in SectionNames : rewriteSection(name)
  \/ rewriteImports
  \/ \E needle \in Needles : rewriteMatches(needle)
  \/ writeOutputFile

Spec == Init /\ [][Next]_vars

\* the loader and the rebaser alone, over every input table
NextRebase ==
  \/ \E win10 \in BOOLEAN : useWindows10Attack(win10)
  \/ loadInputFile
  \/ loadInputSections
  \/ performOnDiskRelocations

SpecRebase == InitRebase /\ [][NextRebase]_vars

\* the pipeline over a section longer than one page, with the collectors that
\* queue whole sections and header fields
NextPack ==
  \/ \E win10 \in BOOLEAN : useWindows10Attack(win10)
  \/ loadInputFile
  \/ loadInputSections
  \/ performOnDiskRelocations
  \/ fixupBase
  \/ \E name \in SectionNames : rewriteSection(name)
  \/ writeOutputFile

SpecPack == InitPack /\ [][NextPack]_vars

\* an image linked at 0x00400000 whose table the rebaser accepts or rejects
InitTwice ==
  InitWith({<<0, 0, 64, 0>>},
           {RelocTable(<<Entry(3, 0)>>), RelocTable(<<Entry(3, 0), Entry(4, 4)>>)}, InputDatas)

\* the pipeline with writeOutputFile called once more on the same recompiler
NextTwice ==
  \/ \E win10 \in BOOLEAN : useWindows10Attack(win10)
  \/ loadInputFile
  \/ loadInputSections
  \/ performOnDiskRelocations
  \/ rewriteHeader
  \/ fixupBase
  \/ \E name \in SectionNames : rewriteSection(name)
  \/ writeOutputFileWithin(MaxWriteCalls + 1)

SpecTwice == InitTwice /\ [][NextTwice]_vars

\* images linked at 0x00400000 with every import address table of two slots
InitImports == InitWith({<<0, 0, 64, 0>>}, {RelocTable(<<>>)}, ImportDatas)

\* the pipeline up to the import collector
NextImports ==
  \/ \E win10 \in BOOLEAN : useWindows10Attack(win10)
  \/ loadInputFile
  \/ loadInputSections
  \/ performOnDiskRelocations
  \/ rewriteImports

SpecImports == InitImports /\ [][NextImports]_vars

(***************************************************************************)
(* Properties of the on-disk rebaser (checked under SpecRebase)            *)
(***************************************************************************)
\* a step of performOnDiskRelocations that got past its entry checks
RebaseStep == rebaseCalls' = rebaseCalls + 1

\* the positions (RVAs) the table lists with the given type
PositionsOfType(table, type) ==
  {table[b].va + BitAnd(table[b].data[e], 4095) :
     <<b, e>> \in {x \in (1..Len(table)) \X (1..8) :
                     /\ x[2] <= Len(table[x[1]].data)
                     /\ table[x[1]].data[x[2]] \div 4096 = type}}

Read32(secs, p) ==
  LET sc == getSectionByRVA(secs, p, 4)
  IN  getData(secs[sc].data, p - secs[sc].RVA)

\* C1: after a successful performOnDiskRelocations, every position p the
\* original directory lists with FIXUP_TYPE holds its original 32-bit value
\* plus (ACTUAL_BASE - original_image_base), whatever else the table lists.
C1_RoundTrip ==
  [][(RebaseStep /\ ret'.ok) =>
       \A p \in PositionsOfType(input.reloc, IMAGE_REL_BASED_HIGHLOW) :
         getSectionByRVA(sectionContents, p, 4) # 0 =>
           Read32(sectionContents', p) =
             Add32(Read32(sectionContents, p),
                   Sub32(ACTUALIZED_BASE_ADDRESS, input.imageBase))]_vars

\* the entries of non-zero type whose four bytes overlap those at p
Overlapping(table, p) ==
  {x \in (1..Len(table)) \X (1..8) :
     /\ x[2] <= Len(table[x[1]].data)
     /\ table[x[1]].data[x[2]] \div 4096 # 0
     /\ table[x[1]].va + BitAnd(table[x[1]].data[x[2]], 4095) - p \in -3..3}

\* C1 as amended: the same, for every position p that the directory lists
\* with FIXUP_TYPE and whose four bytes no other entry of non-zero type
\* overlaps.
C1_RoundTripIsolated ==
  [][(RebaseStep /\ ret'.ok) =>
       \A p \in PositionsOfType(input.reloc, IMAGE_REL_BASED_HIGHLOW) :
         (getSectionByRVA(sectionContents, p, 4) # 0
            /\ Cardinality(Overlapping(input.reloc, p)) = 1) =>
           Read32(sectionContents', p) =
             Add32(Read32(sectionContents, p),
                   Sub32(ACTUALIZED_BASE_ADDRESS, input.imageBase))]_vars

\* a rebase of a table listing p = .rdata+0 and the next slot, .rdata+4, has
\* returned true and left 0x00401234 + (ACTUAL_BASE - ImageBase) at p
C1_Witness ==
  /\ ret = [op |-> "performOnDiskRelocations", ok |-> TRUE]
  /\ input.reloc # <<>>
  /\ input.reloc[1].data = <<Entry(3, 0), Entry(3, 4)>>
  /\ getData(sectionContents[1].data, 0) =
       Add32(<<52, 18, 64, 0>>, Sub32(ACTUALIZED_BASE_ADDRESS, input.imageBase))

\* the type handling the specification states: FIXUP_TYPE is patched, type 0
\* is skipped, any other type stops the pass with false: [ok, data]
RECURSIVE StatedReloc(_, _, _, _, _, _)
StatedReloc(data, secRVA, va, es, i, delta) ==
  IF i > Len(es) THEN [ok |-> TRUE, data |-> data]
  ELSE LET type == es[i] \div 4096
           si == va + BitAnd(es[i], 4095) - secRVA
       IN  IF type = IMAGE_REL_BASED_HIGHLOW
           THEN StatedReloc(putData(data, si, Add32(getData(data, si), delta)),
                            secRVA, va, es, i + 1, delta)
           ELSE IF type = 0 THEN StatedReloc(data, secRVA, va, es, i + 1, delta)
           ELSE [ok |-> FALSE, data |-> data]

\* C6: performOnDiskRelocations patches an entry iff its type is FIXUP_TYPE,
\* skips type 0, and on any other type returns false without patching the
\* bytes the entry names.
C6_TypeHandling ==
  [][(RebaseStep /\ input.reloc # <<>>) =>
       LET sc == getSectionByRVA(sectionContents, input.reloc[1].va, 4)
           stated == StatedReloc(sectionContents[sc].data, sectionContents[sc].RVA,
                                 input.reloc[1].va, input.reloc[1].data, 1,
                                 Sub32(ACTUALIZED_BASE_ADDRESS, peHeader.imageBase))
       IN  /\ ret'.ok = stated.ok
           /\ sectionContents'[sc].data = stated.data]_vars

HasDynamicBase(hdr) ==
  BitAnd(hdr.dllCharacteristics, IMAGE_DLLCHARACTERISTICS_DYNAMIC_BASE) # 0

\* C7 as stated: in Win10 mode a successful performOnDiskRelocations leaves
\* DYNAMIC_BASE set, ImageBase unchanged and the relocation directory with
\* the entries it had when read.
C7_Win10KeepsTable ==
  [][(RebaseStep /\ ret'.ok /\ shouldUseWin10Attack) =>
       /\ HasDynamicBase(peHeader')
       /\ peHeader'.imageBase = peHeader.imageBase
       /\ relocDir' = input.reloc]_vars

\* C7 as amended: in Win10 mode a successful performOnDiskRelocations leaves
\* DYNAMIC_BASE set and ImageBase unchanged, and clears the relocation
\* directory as it does in standard mode.
C7_Win10ClearsTable ==
  [][(RebaseStep /\ ret'.ok /\ shouldUseWin10Attack) =>
       /\ HasDynamicBase(peHeader')
       /\ peHeader'.imageBase = peHeader.imageBase
       /\ relocDir' = <<>>]_vars

\* a Win10-mode rebase of a table with entries has just returned true
C7_Witness ==
  /\ ret = [op |-> "performOnDiskRelocations", ok |-> TRUE]
  /\ shouldUseWin10Attack
  /\ input.reloc # <<>>
  /\ relocDir = <<>>
  /\ HasDynamicBase(peHeader)
  /\ peHeader.imageBase = input.imageBase

(***************************************************************************)
(* Properties of the emitter (checked under Spec)                          *)
(***************************************************************************)
\* a step of writeOutputFile that got past its two entry checks
WriteStep == writeCalls' = writeCalls + 1

Collectors ==
  {"rewriteHeader", "fixupBase", "rewriteSection", "rewriteImports", "rewriteMatches"}

\* the offsets of the slots a rewrite block covers: its first slot, then one
\* every dataSize bytes while inside [offset, offset + size)
SlotOffsets(secs, block) ==
  IF block.kind # "Section" THEN {0}
  ELSE {o \in 0..(Len(secs[block.sec].data) + dataSize) :
          /\ o >= block.offset
          /\ (o - block.offset) % dataSize = 0
          /\ Lt32(W32(o), Add32(W32(block.offset), block.size))}

\* the slots whose four bytes lie inside the section's data
InRange(secs, block) ==
  IF block.kind # "Section" THEN {0}
  ELSE {o \in SlotOffsets(secs, block) : getDataOk(secs[block.sec].data, o)}

\* the slots the iterator hands to the loop: the slots in range and the
\* first one past them, at which the loop is left
Yielded(secs, block) ==
  IF block.kind # "Section" THEN {0}
  ELSE {o \in SlotOffsets(secs, block) :
          o = block.offset \/ getDataOk(secs[block.sec].data, o - dataSize)}

\* the RVA of the slot at offset o of a block
SlotRVA(secs, block, o) ==
  IF block.kind = "Section" THEN secs[block.sec].RVA + o ELSE HeaderFieldRVA(block.kind)

\* the (block, slot) pairs of the queue whose four bytes overlap those at
\* offset o of section sec
Touching(secs, blocks, sec, o) ==
  {x \in (1..Len(blocks)) \X (0..Len(secs[sec].data)) :
     /\ blocks[x[1]].kind = "Section"
     /\ blocks[x[1]].sec = sec
     /\ x[2] \in InRange(secs, blocks[x[1]])
     /\ x[2] - o \in -3..3}

\* the number of blocks of a kind in the queue
CountKind(blocks, kind) == Cardinality({i \in 1..Len(blocks) : blocks[i].kind = kind})

RECURSIVE SubTimes(_, _, _)
SubTimes(w, delta, n) == IF n = 0 THEN w ELSE SubTimes(Sub32(w, delta), delta, n - 1)

\* the section the header names as relocation directory
RelocSection(hdr, secs) == getSectionByRVA(secs, hdr.iddBaseRelocRva, 4)

\* this step of writeOutputFile has taken delta from every rewritten field:
\* from ImageBase and AddressOfEntryPoint once per queued header block, and
\* from every section slot that one block covers and no other slot overlaps
\* (the relocation section, whose bytes stage 3 replaces, apart)
Subtracted(delta) ==
  /\ peHeader'.imageBase =
       SubTimes(peHeader.imageBase, delta, CountKind(rewriteBlocks, "BaseAddress"))
  /\ ~shouldUseWin10Attack =>
       peHeader'.entryPoint =
         SubTimes(peHeader.entryPoint, delta, CountKind(rewriteBlocks, "EntryPoint"))
  /\ \A sec \in 1..Len(sectionContents) :
       sec # RelocSection(peHeader, sectionContents) =>
         \A o \in 0..Len(sectionContents[sec].data) :
           Touching(sectionContents, rewriteBlocks, sec, o) \in
               {{<<i, o>>} : i \in 1..Len(rewriteBlocks)} =>
             getData(sectionContents'[sec].data, o) =
               Sub32(getData(sectionContents[sec].data, o), delta)

\* C5: the quantity writeOutputFile subtracts from every rewritten 32-bit
\* field is ACTUAL_BASE minus the image base recorded in the input file's
\* header, in standard mode as well as in Win10 mode.
C5_PackDeltaFromInput ==
  [][WriteStep => Subtracted(Sub32(ACTUALIZED_BASE_ADDRESS, input.imageBase))]_vars

\* C5 as amended: the quantity subtracted is ACTUAL_BASE minus the ImageBase
\* the header holds when writeOutputFile is entered (0xFFFF0000 once a
\* standard-mode rebase has run, the input's image base after a Win10-mode
\* rebase).
C5_PackDeltaFromHeader ==
  [][WriteStep =>
       Subtracted(Sub32(ACTUALIZED_BASE_ADDRESS, peHeader.imageBase))]_vars

\* a standard-mode write of an image linked at 0x00400000, rebased and then
\* rewritten over .rdata, has taken 0x00020000 from the slot at .rdata+4
C5_Witness ==
  /\ ret = [op |-> "writeOutputFile", ok |-> TRUE]
  /\ ~shouldUseWin10Attack
  /\ rebaserHasRun
  /\ input.imageBase = <<0, 0, 64, 0>>
  /\ rewriteBlocks = <<PeSectionRewriteBlock(1, 0, W32(Len(input.data)))>>
  /\ getData(sectionContents[1].data, 4) = Sub32(getData(input.data, 4), <<0, 0, 2, 0>>)

\* some queued block has a slot at which decrementEntry fails
DecrementFails(secs, blocks) ==
  \E i \in 1..Len(blocks) : Yielded(secs, blocks[i]) # InRange(secs, blocks[i])

\* C10: when a rewrite block's decrement fails during stage 1, writeOutputFile
\* returns false after writing a line to the error sink.
C10_FailedDecrementFails ==
  [][(WriteStep /\ DecrementFails(sectionContents, rewriteBlocks)) =>
       (~ret'.ok /\ errorLine' # "")]_vars

\* the entries of the packed blocks that came from queue position i and name
\* the RVA rva
EntriesFor(packed, i, rva) ==
  {x \in (1..Len(packed)) \X (1..(chunkSize \div dataSize)) :
     /\ packed[x[1]].owner = i
     /\ x[2] <= Len(packed[x[1]].offsets)
     /\ packed[x[1]].beginRVA + BitAnd(packed[x[1]].offsets[x[2]], 4095) = rva}

\* C3: after stage 1 every offset stored in a packed block is below 4096 and
\* every slot a rewrite block yields has exactly one entry, in a packed block
\* B with B.beginRVA + (entry & 0x0FFF) equal to the slot's RVA.
C3_Packing ==
  [][WriteStep =>
       /\ \A b \in 1..Len(packedBlocks') :
            \A e \in 1..Len(packedBlocks'[b].offsets) : packedBlocks'[b].offsets[e] < chunkSize
       /\ \A i \in 1..Len(rewriteBlocks) :
            \A o \in Yielded(sectionContents, rewriteBlocks[i]) :
              Cardinality(EntriesFor(packedBlocks', i,
                            SlotRVA(sectionContents, rewriteBlocks[i], o))) = 1]_vars

\* C9: with the Win10 flag off, a collector returns true only if
\* performOnDiskRelocations has returned true before.
C9_CollectorGate ==
  (ret.op \in Collectors /\ ret.ok /\ ~shouldUseWin10Attack) => rebaserHasRun

\* C8: after a successful Win10-mode writeOutputFile the output has one
\* section more than the input, the last one, named .presel and holding the
\* stub for the original entry point; AddressOfEntryPoint is its RVA,
\* ImageBase is the input's and DYNAMIC_BASE is set.
C8_Win10Output ==
  (ret = [op |-> "writeOutputFile", ok |-> TRUE] /\ shouldUseWin10Attack) =>
    LET n == Len(output.sections)
    IN  /\ n = Len(InputSectionTable(input)) + 1
        /\ output.sections[n].name = ".presel"
        /\ output.entryPoint = W32(output.sections[n].va)
        /\ \E i \in DOMAIN output.data :
             /\ output.data[i].index = n - 1
             /\ output.data[i].bytes = prepareStub(InputEntryPoint)
        /\ output.imageBase = input.imageBase
        /\ BitAnd(output.dllCharacteristics, IMAGE_DLLCHARACTERISTICS_DYNAMIC_BASE) # 0

\* what a loader does with one entry of the directory: the delta is added to
\* the 32 bits the entry names
LoadEntry(m, va, entry, delta) ==
  LET rva == va + BitAnd(entry, 4095)
      sc == getSectionByRVA(m.secs, rva, 4)
  IN  IF entry \div 4096 # IMAGE_REL_BASED_HIGHLOW THEN m
      ELSE IF rva = HeaderFieldRVA("EntryPoint")
      THEN [m EXCEPT !.hdr.entryPoint = Add32(@, delta)]
      ELSE IF rva = HeaderFieldRVA("BaseAddress")
      THEN [m EXCEPT !.hdr.imageBase = Add32(@, delta)]
      ELSE IF sc = 0 THEN m
      ELSE IF ~getDataOk(m.secs[sc].data, rva - m.secs[sc].RVA) THEN m
      ELSE [m EXCEPT !.secs[sc].data =
              putData(@, rva - m.secs[sc].RVA,
                      Add32(getData(@, rva - m.secs[sc].RVA), delta))]

\* the loader's walk over the directory, top-down, from entry e of block b on
RECURSIVE Load(_, _, _, _, _)
Load(m, dir, b, e, delta) ==
  IF b > Len(dir) THEN m
  ELSE IF e > Len(dir[b].data) THEN Load(m, dir, b + 1, 1, delta)
  ELSE Load(LoadEntry(m, dir[b].va, dir[b].data[e], delta), dir, b, e + 1, delta)

\* C2: when two queued rewrite blocks touch the same 32-bit slot, or slots
\* whose four bytes overlap, a loader that walks the emitted directory
\* top-down and adds the delta to each target leaves the slot with the value
\* it had before writeOutputFile decremented it.
C2_OverlapOrdering ==
  [][(WriteStep /\ ret'.ok) =>
       LET delta == Sub32(ACTUALIZED_BASE_ADDRESS, peHeader.imageBase)
           loaded == Load([hdr |-> peHeader', secs |-> sectionContents'],
                          relocDir', 1, 1, delta)
       IN  /\ CountKind(rewriteBlocks, "EntryPoint") >= 2 =>
                loaded.hdr.entryPoint = peHeader.entryPoint
           /\ CountKind(rewriteBlocks, "BaseAddress") >= 2 =>
                loaded.hdr.imageBase = peHeader.imageBase
           /\ \A sec \in 1..Len(sectionContents) :
                \A o \in 0..Len(sectionContents[sec].data) :
                  LET touching == Touching(sectionContents, rewriteBlocks, sec, o)
                  IN  (Cardinality(touching) >= 2
                         /\ \E i \in 1..Len(rewriteBlocks) : <<i, o>> \in touching) =>
                        getData(loaded.secs[sec].data, o) =
                          getData(sectionContents[sec].data, o)]_vars

(***************************************************************************)
(* Properties of the emission order (checked under SpecPack)               *)
(***************************************************************************)
\* the emitted directory lists the packed blocks in list order, and the
\* entries of each block ascend
EmittedInListOrder ==
  /\ packedBlocks' # <<>> =>
       /\ Len(relocDir') = Len(packedBlocks')
       /\ \A k \in 1..Len(packedBlocks') : relocDir'[k].va = packedBlocks'[k].beginRVA
  /\ \A k \in 1..Len(packedBlocks') :
       \A e \in 1..(Len(packedBlocks'[k].offsets) - 1) :
         packedBlocks'[k].offsets[e] < packedBlocks'[k].offsets[e + 1]

RewrittenFields(hdr, secs) ==
  [imageBase |-> hdr.imageBase, entryPoint |-> hdr.entryPoint,
   bytes |-> [sec \in {i \in 1..Len(secs) : i # RelocSection(hdr, secs)} |-> secs[sec].data]]

\* C11: rewrite blocks are consumed once.  A call of writeOutputFile that
\* follows another one with nothing queued in between decrements no field
\* again, and a call returning false for a non-empty relocation table
\* decrements no section byte.
C11_ConsumedOnce ==
  [][WriteStep =>
       /\ (writeCalls >= 1 /\ callsAfterWrite = 0 /\ ~shouldUseWin10Attack) =>
             RewrittenFields(peHeader', sectionContents') =
               RewrittenFields(peHeader, sectionContents)
       /\ errorLine' = "No relocation table should exist if rewrites are present!" =>
             \A sec \in 1..Len(sectionContents) :
               sectionContents'[sec].data = sectionContents[sec].data]_vars

(***************************************************************************)
(* Properties of the import collector (checked under SpecImports)          *)
(***************************************************************************)
\* the non-zero values of the 32-bit slots of the import address table
NonZeroSlots(data, iatOffset, iatSize) ==
  {getData(data, o) : o \in {x \in iatOffset..(iatOffset + iatSize - 1) :
                               (x - iatOffset) % dataSize = 0 /\ getDataOk(data, x)}}
    \ {<<0, 0, 0, 0>>}

MinWord(S) == CHOOSE w \in S : \A v \in S : ~Lt32(v, w)

MaxWord(S) == CHOOSE w \in S : \A v \in S : ~Lt32(w, v)

\* C12: in standard mode, with the import address table inside a section,
\* the names subrange rewriteImports derives starts at the minimum and ends
\* at the maximum of the non-zero slots of the table, whatever their order.
C12_NamesRange ==
  [][(ret'.op = "rewriteImports" /\ ret'.ok /\ ~shouldUseWin10Attack) =>
       LET iatRVA == peHeader.iddIatRva
           iatSize == peHeader.iddIatSize
           iatSec == getSectionByRVA(sectionContents, iatRVA, iatSize)
           names == NonZeroSlots(sectionContents[iatSec].data,
                                 iatRVA - sectionContents[iatSec].RVA, iatSize)
           b1 == rewriteSubsectionByRVA(rewriteBlocks, W32(iatRVA), W32(iatSize)).blocks
           b2 == rewriteSubsectionByRVA(b1, W32(peHeader.iddImportRva),
                                        W32(peHeader.iddImportSize)).blocks
       IN  (iatSec # 0 /\ names # {}) =>
             rewriteBlocks' =
               rewriteSubsectionByRVA(b2, MinWord(names),
                                      Sub32(MaxWord(names), MinWord(names))).blocks]_vars

(***************************************************************************)
(* Page alignment of the packed blocks (checked under Spec)                *)
(***************************************************************************)
\* C13: every packed block writeOutputFile emits begins at a multiple of
\* 4096, and each of its entries is the offset of its slot inside that page
\* (slots at RVA 0x2040 and 0x2044 give the entries 0x040 and 0x044).
C13_PageAligned ==
  [][WriteStep =>
       /\ \A b \in 1..Len(packedBlocks') : packedBlocks'[b].beginRVA % 4096 = 0
       /\ \A i \in 1..Len(rewriteBlocks) :
            \A o \in Yielded(sectionContents, rewriteBlocks[i]) :
              LET rva == SlotRVA(sectionContents, rewriteBlocks[i], o)
              IN  \A x \in EntriesFor(packedBlocks', i, rva) :
                    packedBlocks'[x[1]].offsets[x[2]] = rva % 4096]_vars
====
